---------------------------- MODULE Spec2Model ----------------------------
(***************************************************************************)
(* Model of arwtojpg (src/src/main.rs): the TIFF/IFD walker that locates   *)
(* the largest embedded JPEG of a RAW file, and the semaphore-bounded      *)
(* pipeline that runs one file task per discovered file.                   *)
(*                                                                         *)
(* Two specifications share the module:                                    *)
(*   SpecLoc  one call of find_largest_embedded_jpeg / extract_jpeg on a   *)
(*            byte buffer drawn from a bounded family of TIFF images;      *)
(*   Spec     main + process_directory + the spawned file tasks.           *)
(* Offsets are the 0-based byte offsets of the Rust code; a buffer is a    *)
(* TLA+ sequence of bytes, so offset k is the element k + 1.               *)
(***************************************************************************)
EXTENDS Integers, Sequences, FiniteSets, TLC

VARIABLES
    \* ---- SpecLoc: one locator call
    tiff,        \* the TIFF image the buffer was laid out from (ghost)
    raw_buf,     \* the mapped bytes handed to the locator
    loc_pc,      \* "start" -> "located" -> "extracted"
    loc_result,  \* what find_largest_embedded_jpeg returned
    ext_result,  \* what extract_jpeg returned
    \* ---- Spec: one run of the program
    tree,        \* the files under the input directory
    extension,   \* args.extension: the set of the caller-supplied extension
    transfers,   \* args.transfers, the concurrency limit
    main_pc,     \* where main / process_directory stands
    dir_queue,   \* directories still to read (a stack)
    entries,     \* the RAW files discovered so far, in discovery order
    out_dirs,    \* directories that exist under the output root
    out_files,   \* output path -> "absent", "empty", "partial", "complete"
    permits,     \* permits available in the semaphore
    tasks,       \* the spawned tasks, in spawn (= join) order
    joined,      \* number of tasks the join loop has awaited
    main_result, \* what main returned: "none", "ok" or the error
    exit_status  \* the exit status of the process, -1 while it runs

loc_vars == <<tiff, raw_buf, loc_pc, loc_result, ext_result>>
run_vars == <<tree, extension, transfers, main_pc, dir_queue, entries, out_dirs, out_files,
              permits, tasks, joined, main_result, exit_status>>
vars == <<loc_vars, run_vars>>

-----------------------------------------------------------------------------
(* Bounds of the input families *)

MaxIfds == 3
MaxFiles == 2
MaxTransfers == 2

-----------------------------------------------------------------------------
(* Program constants *)

IFD_ENTRY_SIZE == 12
TAG_JPEG_OFFSET == 513      \* 0x201 JPEGInterchangeFormat
TAG_JPEG_LENGTH == 514      \* 0x202 JPEGInterchangeFormatLength
TIFF_MAGIC_LE == <<73, 73, 42, 0>>    \* b"II*\0"
TIFF_MAGIC_BE_SWAPPED == <<77, 77, 42, 0>>
TIFF_MAGIC_BE == <<77, 77, 0, 42>>    \* b"MM\0*"

\* Option<usize>::None of cur_offset / cur_length (the values are >= 0)
None == -1

-----------------------------------------------------------------------------
(* Byte-level reading, as the code does it *)

\* &buf[a..b]: the bytes at offsets a .. b-1
Slice(buf, a, b) == [i \in 1..(b - a) |-> buf[a + i]]

\* a slice expression &buf[a..b] panics unless a <= b <= buf.len()
SliceInBounds(buf, a, b) == a <= b /\ b <= Len(buf)

read_u16(cursor, is_le) ==
    IF is_le THEN cursor[1] + 256 * cursor[2]
             ELSE cursor[2] + 256 * cursor[1]

read_u32_le_only(cursor, is_le) ==
    cursor[1] + 256 * cursor[2] + 65536 * cursor[3] + 16777216 * cursor[4]

read_u32(cursor, is_le) ==
    IF is_le
    THEN cursor[1] + 256 * cursor[2] + 65536 * cursor[3] + 16777216 * cursor[4]
    ELSE cursor[4] + 256 * cursor[3] + 65536 * cursor[2] + 16777216 * cursor[1]

-----------------------------------------------------------------------------
(* find_largest_embedded_jpeg *)

\* Results of the locator.  kind is "Ok", "Err" (an anyhow error value),
\* "Panic" (a slice index out of range unwinds the task) or "Diverge" (the
\* while loop never ends).
Ok(offset, length) == [kind |-> "Ok", msg |-> "", offset |-> offset, length |-> length]
Err(msg) == [kind |-> "Err", msg |-> msg, offset |-> 0, length |-> 0]
Panic == [kind |-> "Panic", msg |-> "", offset |-> 0, length |-> 0]
Diverge == [kind |-> "Diverge", msg |-> "", offset |-> 0, length |-> 0]

ERR_NOT_TIFF == "Not a valid TIFF file"
ERR_NO_JPEG == "No JPEG data found"
ERR_EXCEEDS == "JPEG data exceeds file size"

\* One arm of the match on the tag (lines 100-106): the entry of tag `want`
\* assigns Some(value) to the variable, whatever it holds; any other entry
\* leaves it as it is.
CaptureFirst(cur, tag, want, value) ==
    IF tag = want /\ cur = None THEN value ELSE cur

Capture(cur, tag, want, value) == IF tag = want THEN value ELSE cur

\* The for loop over the entries of one IFD (lines 97-113).  pos is the
\* offset of entries_cursor in the buffer, remaining the iterations left.
\* Yields [panic, offset, length] with cur_offset and cur_length at the end.
ScanPanic == [panic |-> TRUE, offset |-> None, length |-> None]

RECURSIVE ScanEntries(_, _, _, _, _, _)
ScanEntries(buf, is_le, pos, remaining, cur_offset, cur_length) ==
    IF remaining = 0
    THEN [panic |-> FALSE, offset |-> cur_offset, length |-> cur_length]
    ELSE IF ~SliceInBounds(buf, pos, pos + 2) THEN ScanPanic
    ELSE LET tag == read_u16(Slice(buf, pos, pos + 2), is_le)
             isTag == tag \in {TAG_JPEG_OFFSET, TAG_JPEG_LENGTH}
         IN  IF isTag /\ ~SliceInBounds(buf, pos + 8, pos + 12) THEN ScanPanic
             ELSE LET value == read_u32(Slice(buf, pos + 8, pos + 12), is_le)
                      off2 == Capture(cur_offset, tag, TAG_JPEG_OFFSET, value)
                      len2 == Capture(cur_length, tag, TAG_JPEG_LENGTH, value)
                  IN  IF off2 /= None /\ len2 /= None
                      THEN [panic |-> FALSE, offset |-> off2, length |-> len2]
                      ELSE IF ~SliceInBounds(buf, pos + IFD_ENTRY_SIZE, Len(buf))
                           THEN ScanPanic
                      ELSE ScanEntries(buf, is_le, pos + IFD_ENTRY_SIZE,
                                       remaining - 1, off2, len2)

\* if length > largest_jpeg.length { largest_jpeg = ... }  (lines 115-119)
KeepSmallest(largest, offset, length) ==
    IF largest[2] = 0 \/ length < largest[2] THEN <<offset, length>> ELSE largest

KeepLargest(largest, offset, length) ==
    IF length > largest[2] THEN <<offset, length>> ELSE largest

\* One iteration of the while loop (lines 90-122) at IFD offset off with
\* largest = <<largest_jpeg.offset, largest_jpeg.length>>.
\* Yields [panic, next, largest].
IfdVisit(buf, is_le, off, largest) ==
    LET panicked == [panic |-> TRUE, next |-> 0, largest |-> largest] IN
    IF ~SliceInBounds(buf, off, Len(buf)) THEN panicked          \* &raw_buf[off..]
    ELSE IF ~SliceInBounds(buf, off, off + 2) THEN panicked      \* &cursor[..2]
    ELSE LET num_entries == read_u16(Slice(buf, off, off + 2), is_le)
             cur == ScanEntries(buf, is_le, off + 2, num_entries, None, None)
             nextAt == off + 2 + num_entries * IFD_ENTRY_SIZE
         IN  IF cur.panic THEN panicked
             ELSE IF ~SliceInBounds(buf, nextAt, Len(buf)) THEN panicked
             ELSE IF ~SliceInBounds(buf, nextAt, nextAt + 4) THEN panicked
             ELSE [panic |-> FALSE,
                   next |-> read_u32(Slice(buf, nextAt, nextAt + 4), is_le),
                   largest |-> IF cur.offset /= None /\ cur.length /= None
                               THEN KeepLargest(largest, cur.offset, cur.length)
                               ELSE largest]

\* The while loop (line 89).  The loop is deterministic in its state
\* <<next_ifd_offset, largest_jpeg>>, so it never ends exactly when a loop
\* state comes back; seen holds the loop states of this call so far.
\* Yields [kind, largest] with kind in {"end", "panic", "diverge"}.
RECURSIVE WalkChain(_, _, _, _, _)
WalkChain(buf, is_le, next_ifd_offset, largest, seen) ==
    IF next_ifd_offset = 0 THEN [kind |-> "end", largest |-> largest]
    ELSE IF <<next_ifd_offset, largest>> \in seen
         THEN [kind |-> "diverge", largest |-> largest]
    ELSE LET v == IfdVisit(buf, is_le, next_ifd_offset, largest)
         IN  IF v.panic THEN [kind |-> "panic", largest |-> largest]
             ELSE WalkChain(buf, is_le, v.next, v.largest,
                            seen \cup {<<next_ifd_offset, largest>>})

\* The two ensure! of lines 125-132 on the candidate the walk ended with.
CheckLargestNoBounds(buf, largest) ==
    IF ~(largest[1] /= 0 /\ largest[2] /= 0) THEN Err(ERR_NO_JPEG)
    ELSE Ok(largest[1], largest[2])

CheckLargestAcceptsNone(buf, largest) ==
    IF ~(largest[1] + largest[2] <= Len(buf)) THEN Err(ERR_EXCEEDS)
    ELSE Ok(largest[1], largest[2])

CheckLargest(buf, largest) ==
    IF ~(largest[1] /= 0 /\ largest[2] /= 0) THEN Err(ERR_NO_JPEG)
    ELSE IF ~(largest[1] + largest[2] <= Len(buf)) THEN Err(ERR_EXCEEDS)
    ELSE Ok(largest[1], largest[2])

\* The candidate the chain walk ends with (largest_jpeg after the loop) on a
\* buffer whose header is a TIFF header; <<0, 0>> when the walk does not end.
ChosenJpeg(buf) ==
    LET is_le == Slice(buf, 0, 4) = TIFF_MAGIC_LE
        w == WalkChain(buf, is_le, read_u32(Slice(buf, 4, 8), is_le), <<0, 0>>, {})
    IN  IF w.kind = "end" THEN w.largest ELSE <<0, 0>>

find_largest_embedded_jpeg(buf) ==
    IF ~SliceInBounds(buf, 0, 4) THEN Panic                      \* &raw_buf[0..4]
    ELSE IF ~(Slice(buf, 0, 4) = TIFF_MAGIC_LE \/ Slice(buf, 0, 4) = TIFF_MAGIC_BE)
         THEN Err(ERR_NOT_TIFF)
    ELSE IF ~SliceInBounds(buf, 4, 8) THEN Panic                 \* &raw_buf[4..8]
    ELSE LET is_le == Slice(buf, 0, 4) = TIFF_MAGIC_LE
             w == WalkChain(buf, is_le, read_u32(Slice(buf, 4, 8), is_le),
                            <<0, 0>>, {})
         IN  CASE w.kind = "panic" -> Panic
               [] w.kind = "diverge" -> Diverge
               [] OTHER -> CheckLargest(buf, w.largest)

\* The three advisory calls of extract_jpeg, each of which may fail.
HintOutcomes == [fadvise : BOOLEAN, willneed : BOOLEAN, populate : BOOLEAN]
ERR_FADVISE == "posix_fadvise failed"
ERR_MADVISE == "madvise failed"

\* extract_jpeg (lines 137-151): locate, three hints each followed by ?,
\* then the slice &raw_buf[offset..offset + length], given as its range.
extract_jpeg(buf, hints) ==
    LET jpeg == find_largest_embedded_jpeg(buf) IN
    IF jpeg.kind /= "Ok" THEN jpeg
    ELSE IF ~hints.fadvise THEN Err(ERR_FADVISE)
    ELSE IF ~hints.willneed THEN Err(ERR_MADVISE)
    ELSE IF ~hints.populate THEN Err(ERR_MADVISE)
    ELSE IF ~SliceInBounds(buf, jpeg.offset, jpeg.offset + jpeg.length) THEN Panic
    ELSE Ok(jpeg.offset, jpeg.length)

-----------------------------------------------------------------------------
(* The input family of SpecLoc: TIFF images and their byte layout *)

U16Bytes(v, is_le) ==
    IF is_le THEN <<v % 256, v \div 256>> ELSE <<v \div 256, v % 256>>

U32Bytes(v, is_le) ==
    LET b0 == v % 256
        b1 == (v \div 256) % 256
        b2 == (v \div 65536) % 256
        b3 == (v \div 16777216) % 256
    IN  IF is_le THEN <<b0, b1, b2, b3>> ELSE <<b3, b2, b1, b0>>

\* A 12-byte IFD entry: tag, type LONG (4), count 1, value
EntryBytes(tag, val, is_le) ==
    U16Bytes(tag, is_le) \o U16Bytes(4, is_le) \o U32Bytes(1, is_le)
        \o U32Bytes(val, is_le)

RECURSIVE EntriesBytes(_, _, _)
EntriesBytes(tags, vals, is_le) ==
    IF tags = <<>> THEN <<>>
    ELSE EntryBytes(Head(tags), Head(vals), is_le)
             \o EntriesBytes(Tail(tags), Tail(vals), is_le)

\* An IFD: entry count, entry array, next-IFD pointer
IfdBytes(ifd, is_le) ==
    U16Bytes(ifd.count, is_le) \o EntriesBytes(ifd.tags, ifd.vals, is_le)
        \o U32Bytes(ifd.next, is_le)

RECURSIVE IfdsBytes(_, _)
IfdsBytes(ifds, is_le) ==
    IF ifds = <<>> THEN <<>>
    ELSE IfdBytes(Head(ifds), is_le) \o IfdsBytes(Tail(ifds), is_le)

\* The bytes of image t, cut or zero-padded to t.len bytes: the header, then
\* the IFDs one after the other from offset 8.
Layout(t) ==
    LET full == t.magic \o U32Bytes(t.first, t.is_le) \o IfdsBytes(t.ifds, t.is_le)
    IN  [i \in 1..t.len |-> IF i <= Len(full) THEN full[i] ELSE 0]

Magic(is_le) == IF is_le THEN TIFF_MAGIC_LE ELSE TIFF_MAGIC_BE

\* The IFD that declares the JPEG <<offset, length>>, its offset tag first
\* (ord = "OL") or its length tag first ("LO"), before its next pointer is set
JpegIfd(ord, decl) ==
    IF ord = "OL"
    THEN [count |-> 2, tags |-> <<TAG_JPEG_OFFSET, TAG_JPEG_LENGTH>>,
          vals |-> <<decl[1], decl[2]>>, next |-> 0, decl |-> decl]
    ELSE [count |-> 2, tags |-> <<TAG_JPEG_LENGTH, TAG_JPEG_OFFSET>>,
          vals |-> <<decl[2], decl[1]>>, next |-> 0, decl |-> decl]

\* Tag orders along a chain: offset first in every IFD, length first in
\* every IFD, or alternating
TagOrders == {"OL", "LO", "alt"}

OrderAt(ords, i) ==
    CASE ords = "OL" -> "OL"
      [] ords = "LO" -> "LO"
      [] OTHER -> IF i % 2 = 1 THEN "OL" ELSE "LO"

\* JPEG declarations offered to an IFD of a buffer of len bytes: three that
\* lie in the buffer (the last one ends at its last byte), one that ends
\* one byte past it, and two with offset 0, within the buffer and past it.
DeclsFor(len) ==
    {<<16, 3>>, <<12, 9>>, <<20, len - 20>>, <<20, len - 19>>, <<0, 5>>,
     <<0, len + 1>>}

\* Length of a buffer that holds the header and n two-entry IFDs, which is
\* also the offset of the IFD that follows n of them
ChainLen(n) == 8 + n * (2 + 2 * IFD_ENTRY_SIZE + 4)

\* Link two-entry IFDs into a chain: every IFD points at the next, the
\* last at 0
Linked(ifds) ==
    [i \in 1..Len(ifds) |->
        [ifds[i] EXCEPT !.next = IF i = Len(ifds) THEN 0 ELSE ChainLen(i)]]

\* Well-formed images: a chain of 1..MaxIfds IFDs, each declaring a JPEG
ChainTiffs ==
    UNION { { [is_le |-> le, magic |-> Magic(le), first |-> 8,
               ifds |-> Linked([i \in 1..n |-> JpegIfd(OrderAt(ords, i), decls[i])]),
               len |-> ChainLen(n), fault |-> "none"]
              : le \in BOOLEAN, ords \in TagOrders,
                decls \in [1..n -> DeclsFor(ChainLen(n))] }
            : n \in 1..MaxIfds }

\* A well-formed one-IFD image to derive the malformed ones from
BaseTiff(le) ==
    [is_le |-> le, magic |-> Magic(le), first |-> 8,
     ifds |-> <<JpegIfd("OL", <<16, 3>>)>>, len |-> ChainLen(1), fault |-> "none"]

\* Images in which an offset of the walk lies beyond the end of the buffer:
\* the first-IFD offset, the entry array or the next-pointer field (buffer
\* cut short, or an entry count that runs past the end), a next pointer.
MalformedTiffs ==
    UNION { { [BaseTiff(le) EXCEPT !.first = f, !.fault = "ifd_start"]
                : f \in {ChainLen(1) + 1, 300} }
            \cup { [BaseTiff(le) EXCEPT !.len = l, !.fault = "cut"]
                : l \in 8..(ChainLen(1) - 1) }
            \cup { [BaseTiff(le) EXCEPT !.ifds[1].count = 40, !.fault = "count"] }
            \cup { [BaseTiff(le) EXCEPT !.ifds[1].next = x, !.fault = "next"]
                : x \in {ChainLen(1) + 1, 300} }
            : le \in BOOLEAN }

\* An IFD with the given entries that declares no JPEG
PlainIfd(tags, vals) ==
    [count |-> Len(tags), tags |-> tags, vals |-> vals, next |-> 0, decl |-> <<0, 0>>]

\* Bytes an IFD takes: entry count, entry array, next-IFD pointer
IfdLen(ifd) == 2 + ifd.count * IFD_ENTRY_SIZE + 4

\* Offset of the i-th of the IFDs laid out one after the other from offset 8
RECURSIVE OffsetOf(_, _)
OffsetOf(ifds, i) ==
    IF i = 1 THEN 8 ELSE OffsetOf(ifds, i - 1) + IfdLen(ifds[i - 1])

\* A well-formed image of IFDs of any size: every IFD points at the next,
\* the last at 0, and the buffer ends with the last IFD
ChainOf(le, ifds) ==
    [is_le |-> le, magic |-> Magic(le), first |-> 8,
     ifds |-> [i \in 1..Len(ifds) |->
                 [ifds[i] EXCEPT !.next = IF i = Len(ifds) THEN 0
                                          ELSE OffsetOf(ifds, i + 1)]],
     len |-> OffsetOf(ifds, Len(ifds)) + IfdLen(ifds[Len(ifds)]),
     fault |-> "none"]

\* IFDs that do not carry both JPEG tags: no entry, entries of other tags
\* (ImageWidth 256, ImageLength 257), only the offset tag, only the length
\* tag, one of the two tags twice
HalfIfds ==
    { PlainIfd(<<>>, <<>>),
      PlainIfd(<<256>>, <<640>>),
      PlainIfd(<<TAG_JPEG_OFFSET>>, <<16>>),
      PlainIfd(<<TAG_JPEG_LENGTH>>, <<3>>),
      PlainIfd(<<256, TAG_JPEG_OFFSET>>, <<640, 16>>),
      PlainIfd(<<TAG_JPEG_LENGTH, 257>>, <<3, 480>>),
      PlainIfd(<<TAG_JPEG_OFFSET, TAG_JPEG_OFFSET>>, <<16, 12>>) }

\* Well-formed images in which no IFD carries both JPEG tags
NoJpegTiffs ==
    UNION { { ChainOf(le, ifds) : le \in BOOLEAN, ifds \in [1..n -> HalfIfds] }
            : n \in 1..(MaxIfds - 1) }

\* Four bytes that are neither magic: each magic with the byte order of its
\* last two bytes swapped, a mix of the two, zeros, a magic with one bit set
BadMagics ==
    { <<77, 77, 42, 0>>, <<73, 73, 0, 42>>, <<73, 77, 42, 0>>, <<0, 0, 0, 0>>,
      <<73, 73, 42, 1>> }

\* Images with a bad magic: the whole one-IFD image, only its header, only
\* the magic and two more bytes, only the magic; with a first-IFD offset in
\* the buffer or far beyond it
BadMagicTiffs ==
    { [BaseTiff(le) EXCEPT !.magic = m, !.first = f, !.len = l, !.fault = "magic"]
        : le \in BOOLEAN, m \in BadMagics, f \in {8, 300},
          l \in {4, 6, 8, ChainLen(1)} }

\* Files shorter than the magic
ShortTiffs ==
    { [BaseTiff(le) EXCEPT !.len = l, !.fault = "short"]
        : le \in BOOLEAN, l \in 0..3 }

\* The entries of a four-entry IFD whose entry p is the offset tag and whose
\* entry q is the length tag of decl, the other two being ImageWidth and
\* ImageLength
EntryAt(i, p, q, decl) ==
    CASE i = p -> <<TAG_JPEG_OFFSET, decl[1]>>
      [] i = q -> <<TAG_JPEG_LENGTH, decl[2]>>
      [] OTHER -> IF i % 2 = 1 THEN <<256, 640>> ELSE <<257, 480>>

SpreadIfd(p, q, decl) ==
    [count |-> 4, tags |-> [i \in 1..4 |-> EntryAt(i, p, q, decl)[1]],
     vals |-> [i \in 1..4 |-> EntryAt(i, p, q, decl)[2]], next |-> 0,
     decl |-> decl]

\* Well-formed single-IFD images whose IFD carries each JPEG tag once, at
\* any two of its four entries
SingleIfdTiffs ==
    { ChainOf(le, <<SpreadIfd(pq[1], pq[2], decl)>>)
        : le \in BOOLEAN,
          pq \in {pq \in (1..4) \X (1..4) : pq[1] /= pq[2]},
          decl \in {<<16, 3>>, <<58, 4>>, <<58, 5>>, <<0, 5>>, <<16, 0>>} }

\* IFDs that carry both JPEG tags and one of them, or both, more than once
\* (offsets 16 and 12, lengths 3 and 5); decl is the pair of the first
\* occurrences
RepeatIfds ==
    { [PlainIfd(<<TAG_JPEG_OFFSET, TAG_JPEG_OFFSET, TAG_JPEG_LENGTH>>,
                <<16, 12, 3>>) EXCEPT !.decl = <<16, 3>>],
      [PlainIfd(<<TAG_JPEG_OFFSET, TAG_JPEG_LENGTH, TAG_JPEG_OFFSET>>,
                <<16, 3, 12>>) EXCEPT !.decl = <<16, 3>>],
      [PlainIfd(<<TAG_JPEG_LENGTH, TAG_JPEG_LENGTH, TAG_JPEG_OFFSET>>,
                <<3, 5, 16>>) EXCEPT !.decl = <<16, 3>>],
      [PlainIfd(<<TAG_JPEG_LENGTH, TAG_JPEG_OFFSET, TAG_JPEG_LENGTH>>,
                <<3, 16, 5>>) EXCEPT !.decl = <<16, 3>>],
      [PlainIfd(<<TAG_JPEG_OFFSET, 256, TAG_JPEG_OFFSET, TAG_JPEG_LENGTH,
                  TAG_JPEG_LENGTH>>,
                <<16, 640, 12, 3, 5>>) EXCEPT !.decl = <<16, 3>>],
      [PlainIfd(<<TAG_JPEG_LENGTH, TAG_JPEG_LENGTH, 256, TAG_JPEG_OFFSET,
                  TAG_JPEG_OFFSET>>,
                <<3, 5, 640, 16, 12>>) EXCEPT !.decl = <<16, 3>>] }

\* Well-formed single-IFD images whose IFD repeats a JPEG tag
RepeatTiffs == { ChainOf(le, <<ifd>>) : le \in BOOLEAN, ifd \in RepeatIfds }

\* Images whose chain comes back to an IFD already visited: the next
\* pointer of the only IFD refers to that IFD; the next pointer of the second
\* of two IFDs refers to the first, or to the second itself.  The IFDs
\* declare a JPEG or hold no JPEG tag.
CyclicTiffs ==
    UNION { { [ChainOf(le, <<a>>) EXCEPT !.ifds[1].next = 8, !.fault = "cycle"]
                : a \in {JpegIfd("OL", <<16, 3>>), PlainIfd(<<256>>, <<640>>)} }
            \cup { [ChainOf(le, <<a, b>>) EXCEPT !.ifds[2].next = back,
                                                 !.fault = "cycle"]
                : a \in {JpegIfd("OL", <<16, 3>>)},
                  b \in {JpegIfd("LO", <<12, 9>>), PlainIfd(<<256>>, <<640>>)},
                  back \in {8, ChainLen(1)} }
            : le \in BOOLEAN }

Tiffs ==
    ChainTiffs \cup MalformedTiffs \cup NoJpegTiffs \cup BadMagicTiffs
        \cup ShortTiffs \cup SingleIfdTiffs \cup RepeatTiffs \cup CyclicTiffs

-----------------------------------------------------------------------------
(* The input tree and the walk of process_directory *)

\* A directory is the sequence of its path components below the root.
RootDir == <<>>

\* Files an input tree is drawn from: [dir, stem, ext]
FileUniverse ==
    { [dir |-> <<>>, stem |-> "img", ext |-> "arw"],
      [dir |-> <<"a">>, stem |-> "img", ext |-> "ARW"],
      [dir |-> <<"a">>, stem |-> "img", ext |-> "NEF"],
      [dir |-> <<"a">>, stem |-> "img", ext |-> "Arw"],
      [dir |-> <<"a">>, stem |-> "notes", ext |-> "txt"],
      [dir |-> <<"a", "b">>, stem |-> "pic", ext |-> "dng"] }

DefaultExtensions ==
    { "arw", "cr2", "crw", "dng", "erf", "kdc", "mef", "mrw", "nef", "nrw",
      "orf", "pef", "raf", "raw", "rw2", "rwl", "sr2", "srf", "srw", "x3f" }

\* str::to_uppercase on the default extensions
to_uppercase(e) ==
    CASE e = "arw" -> "ARW" [] e = "cr2" -> "CR2" [] e = "crw" -> "CRW"
      [] e = "dng" -> "DNG" [] e = "erf" -> "ERF" [] e = "kdc" -> "KDC"
      [] e = "mef" -> "MEF" [] e = "mrw" -> "MRW" [] e = "nef" -> "NEF"
      [] e = "nrw" -> "NRW" [] e = "orf" -> "ORF" [] e = "pef" -> "PEF"
      [] e = "raf" -> "RAF" [] e = "raw" -> "RAW" [] e = "rw2" -> "RW2"
      [] e = "rwl" -> "RWL" [] e = "sr2" -> "SR2" [] e = "srf" -> "SRF"
      [] e = "srw" -> "SRW" [] e = "x3f" -> "X3F"

\* Values of args.extension: Option<OsString> as the set of its elements
Extensions == {{}, {"txt"}}

\* valid_extensions (lines 177-184): every default extension as written and
\* in upper case, chained with the caller-supplied extension as given
valid_extensions(ext) ==
    DefaultExtensions \cup {to_uppercase(e) : e \in DefaultExtensions} \cup ext

\* path.extension().map_or(false, |ext| valid_extensions.contains(ext))
IsRaw(f) == f.ext \in valid_extensions(extension)

IsPrefix(d, e) == Len(d) <= Len(e) /\ SubSeq(e, 1, Len(d)) = d

\* the directories of a tree: the root and every ancestor of a file
Ancestors(d) == {SubSeq(d, 1, k) : k \in 0..Len(d)}

DirsOf(t) == {RootDir} \cup UNION {Ancestors(f.dir) : f \in t}

SubDirs(t, d) == {e \in DirsOf(t) : Len(e) = Len(d) + 1 /\ IsPrefix(d, e)}

\* the sequences that list the elements of S once each
Orderings(S) ==
    {q \in [1..Cardinality(S) -> S] : \A x \in S : \E i \in DOMAIN q : q[i] = x}

\* fs::create_dir_all: the directory and all its ancestors
CreateDirAll(dirs, d) == dirs \cup Ancestors(d)

\* if found_raw { ... create_dir_all(output_subdir) }  (lines 206-210)
NeverCreatesSubdir(found_raw) == FALSE

CreatesSubdir(found_raw) == found_raw

\* out_dir.join(relative_path) with set_extension("jpg") (lines 165-166)
OutputFile(f) == [dir |-> f.dir, name |-> f.stem, ext |-> "jpg"]

OutputFiles == {OutputFile(f) : f \in FileUniverse}

-----------------------------------------------------------------------------
(* File tasks *)

\* TIFF images a discovered file may hold: a valid one, a valid one of two
\* IFDs whose second JPEG is the longer, one with a bad magic, one whose
\* JPEG runs past the end, one cut inside the entry array.
SampleTiffs ==
    { BaseTiff(TRUE),
      [BaseTiff(FALSE) EXCEPT
          !.ifds = Linked(<<JpegIfd("OL", <<16, 3>>), JpegIfd("LO", <<12, 9>>)>>),
          !.len = ChainLen(2)],
      [BaseTiff(FALSE) EXCEPT !.magic = <<77, 77, 42, 0>>],
      [BaseTiff(TRUE) EXCEPT !.ifds = <<JpegIfd("LO", <<20, 19>>)>>],
      [BaseTiff(FALSE) EXCEPT !.len = 20, !.fault = "cut"] }

\* The calls extract_jpeg makes, in order, up to the one that fails.
ExtractEvents(buf, hints) ==
    LET jpeg == find_largest_embedded_jpeg(buf) IN
    IF jpeg.kind = "Err" THEN <<"locate_failed">>
    ELSE IF jpeg.kind /= "Ok" THEN <<"locate_panicked">>
    ELSE IF ~hints.fadvise THEN <<"located", "fadvise_willneed_failed">>
    ELSE IF ~hints.willneed
         THEN <<"located", "fadvise_willneed", "madvise_willneed_failed">>
    ELSE IF ~hints.populate
         THEN <<"located", "fadvise_willneed", "madvise_willneed",
                "madvise_populate_failed">>
    ELSE <<"located", "fadvise_willneed", "madvise_willneed", "madvise_populate">>

\* The <<offset, length>> arguments of the hint calls extract_jpeg issues
\* (lines 140-148), in order, the failing one included: jpeg.offset and
\* jpeg.length in each of the three calls.
HintRangesWholeFile(buf, hints) ==
    LET jpeg == find_largest_embedded_jpeg(buf)
        calls == IF ~hints.fadvise THEN 1 ELSE IF ~hints.willneed THEN 2 ELSE 3
    IN  IF jpeg.kind /= "Ok" THEN <<>>
        ELSE [k \in 1..calls |-> <<0, Len(buf)>>]

HintRanges(buf, hints) ==
    LET jpeg == find_largest_embedded_jpeg(buf)
        calls == IF ~hints.fadvise THEN 1 ELSE IF ~hints.willneed THEN 2 ELSE 3
    IN  IF jpeg.kind /= "Ok" THEN <<>>
        ELSE [k \in 1..calls |-> <<jpeg.offset, jpeg.length>>]

\* What extract_jpeg can do on a discovered file: its result, the calls it
\* made, the ranges it hinted and the length of the mapped buffer, over the
\* images a file may hold and the outcomes of the hints.
ExtractOutcomes ==
    { [result |-> extract_jpeg(Layout(t), hints),
       events |-> ExtractEvents(Layout(t), hints),
       hinted |-> HintRanges(Layout(t), hints),
       buf_len |-> t.len] : t \in SampleTiffs, hints \in HintOutcomes }

NoJpeg == <<0, 0, 0>>

NewTask(f) ==
    [file |-> f, pc |-> "spawned", result |-> "none", mapped |-> FALSE,
     permit |-> FALSE, jpeg |-> NoJpeg, events |-> <<>>, hinted |-> <<>>]

Running(t) == t.pc \notin {"finished", "cancelled"}

Steps(t, pc, ev) == [t EXCEPT !.pc = pc, !.events = @ \o ev]

\* process_file returns Err through a ?: its locals (the mapping, the input
\* file) are dropped, the task goes on to drop(permit).
GoesOnToWrite(t, ev) == Steps(t, "create", ev)

ReturnsErr(t, ev) ==
    [t EXCEPT !.pc = "release", !.result = "err", !.mapped = FALSE,
              !.events = @ \o ev]

\* a panic unwinds process_file and the task: the JoinHandle reports it
Panics(t, ev) ==
    [t EXCEPT !.pc = "release", !.result = "panic", !.mapped = FALSE,
              !.events = @ \o ev]

task_vars == <<loc_vars, tree, extension, transfers, main_pc, dir_queue, entries, out_dirs,
               joined, main_result, exit_status>>

\* semaphore.acquire_owned().await (line 221)
AcquireNoDecrement(n) == n

AcquirePermit(n) == n - 1

Acquire(i) ==
    /\ tasks[i].pc = "spawned"
    /\ permits > 0
    /\ permits' = AcquirePermit(permits)
    /\ tasks' = [tasks EXCEPT ![i] = [@ EXCEPT !.pc = "open", !.permit = TRUE]]
    /\ UNCHANGED <<task_vars, out_files>>

\* println!, File::open(entry_path).await? (lines 160-161)
OpenInput(i) ==
    /\ tasks[i].pc = "open"
    /\ \E ok \in BOOLEAN :
         tasks' = [tasks EXCEPT ![i] =
                     IF ok THEN Steps(@, "fadvise", <<"open">>)
                           ELSE ReturnsErr(@, <<"open_failed">>)]
    /\ UNCHANGED <<task_vars, out_files, permits>>

\* mmap_raw: posix_fadvise(raw_fd, 0, 0, POSIX_FADV_RANDOM)? (line 38)
FadviseRandom(i) ==
    /\ tasks[i].pc = "fadvise"
    /\ \E ok \in BOOLEAN :
         tasks' = [tasks EXCEPT ![i] =
                     IF ok THEN Steps(@, "mmap", <<"fadvise_random">>)
                           ELSE ReturnsErr(@, <<"fadvise_random_failed">>)]
    /\ UNCHANGED <<task_vars, out_files, permits>>

\* mmap_raw: Mmap::map(raw_fd)? (line 40)
MapInput(i) ==
    /\ tasks[i].pc = "mmap"
    /\ \E ok \in BOOLEAN :
         tasks' = [tasks EXCEPT ![i] =
                     IF ok THEN [Steps(@, "madvise", <<"mmap">>) EXCEPT !.mapped = TRUE]
                           ELSE ReturnsErr(@, <<"mmap_failed">>)]
    /\ UNCHANGED <<task_vars, out_files, permits>>

\* mmap_raw: raw_buf.advise(Advice::Random)? (line 41)
MadviseRandom(i) ==
    /\ tasks[i].pc = "madvise"
    /\ \E ok \in BOOLEAN :
         tasks' = [tasks EXCEPT ![i] =
                     IF ok THEN Steps(@, "extract", <<"madvise_random">>)
                           ELSE ReturnsErr(@, <<"madvise_random_failed">>)]
    /\ UNCHANGED <<task_vars, out_files, permits>>

\* extract_jpeg(raw_fd, &raw_buf)? (line 164) on the bytes of the file
ExtractJpeg(i) ==
    /\ tasks[i].pc = "extract"
    /\ \E o \in ExtractOutcomes :
         LET r == o.result
             ev == o.events
         IN  tasks' = [tasks EXCEPT ![i] =
                 CASE r.kind = "Ok" ->
                        [Steps(@, "create", ev) EXCEPT
                            !.jpeg = <<r.offset, r.length, o.buf_len>>,
                            !.hinted = o.hinted]
                   [] r.kind = "Err" -> [ReturnsErr(@, ev) EXCEPT !.hinted = o.hinted]
                   [] OTHER -> [Panics(@, ev) EXCEPT !.hinted = o.hinted]]
    /\ UNCHANGED <<task_vars, out_files, permits>>

\* write_jpeg: File::create(output_file).await? (line 154)
CreateOutput(i) ==
    /\ tasks[i].pc = "create"
    /\ LET out == OutputFile(tasks[i].file) IN
       \E ok \in BOOLEAN :
         /\ ok => out.dir \in out_dirs
         /\ tasks' = [tasks EXCEPT ![i] =
                        IF ok THEN Steps(@, "write", <<"create">>)
                              ELSE ReturnsErr(@, <<"create_failed">>)]
         /\ out_files' = IF ok THEN [out_files EXCEPT ![out] = "empty"] ELSE out_files
    /\ UNCHANGED <<task_vars, permits>>

\* write_jpeg: out_file.write_all(jpeg_buf).await? (line 155); a failed
\* write leaves the created file empty or partly written.  On success
\* process_file returns Ok and drops the mapping.
WriteOutput(i) ==
    /\ tasks[i].pc = "write"
    /\ LET out == OutputFile(tasks[i].file) IN
       \E left \in {"complete", "partial", "empty"} :
         /\ tasks' = [tasks EXCEPT ![i] =
                        IF left = "complete"
                        THEN [Steps(@, "release", <<"write">>) EXCEPT
                                 !.result = "ok", !.mapped = FALSE]
                        ELSE ReturnsErr(@, <<"write_failed">>)]
         /\ out_files' = [out_files EXCEPT ![out] = left]
    /\ UNCHANGED <<task_vars, permits>>

\* drop(permit) (line 223): the permit goes back to the semaphore
KeepsPermit(n) == n

ReleasePermit(n) == n + 1

\* drop(permit), the eprintln! of a failure, and the end of the task
\* (lines 223-227)
Release(i) ==
    /\ tasks[i].pc = "release"
    /\ permits' = ReleasePermit(permits)
    /\ tasks' = [tasks EXCEPT ![i] = [@ EXCEPT !.pc = "finished", !.permit = FALSE]]
    /\ UNCHANGED <<task_vars, out_files>>

-----------------------------------------------------------------------------
(* main and process_directory *)

\* main returns (#[tokio::main]): the process exits with the status of the
\* result, and the runtime is dropped, which cancels every task that has
\* not finished; dropping a cancelled task drops the permit it holds.
ExitStatus(result) == IF result = "ok" THEN 0 ELSE 1

Exits(result) ==
    /\ main_pc' = "exited"
    /\ main_result' = result
    /\ exit_status' = ExitStatus(result)
    /\ tasks' = [i \in DOMAIN tasks |->
                   IF Running(tasks[i])
                   THEN [tasks[i] EXCEPT !.pc = "cancelled", !.mapped = FALSE,
                                         !.permit = FALSE]
                   ELSE tasks[i]]
    /\ permits' = permits + Cardinality({i \in DOMAIN tasks :
                                            Running(tasks[i]) /\ tasks[i].permit})

\* fs::create_dir_all(&output_dir).await? (line 247)
CreateOutputRoot ==
    /\ main_pc = "mkroot"
    /\ \E ok \in BOOLEAN :
         IF ok
         THEN /\ out_dirs' = CreateDirAll(out_dirs, RootDir)
              /\ main_pc' = "walk"
              /\ UNCHANGED <<tasks, permits, main_result, exit_status>>
         ELSE Exits("create_output_root_failed") /\ UNCHANGED out_dirs
    /\ UNCHANGED <<loc_vars, tree, extension, transfers, dir_queue, entries,
                   out_files, joined>>

\* One iteration of while let Some(current_dir) = dir_queue.pop()
\* (lines 189-211): read the directory in the order the system lists it,
\* push its subdirectories, collect its RAW files, create the mirrored
\* directory when it holds a RAW file.  A failing call returns Err: read_dir
\* or next_entry after any part of the listing, create_dir_all after it.
WalkDir ==
    /\ main_pc = "walk"
    /\ dir_queue /= <<>>
    /\ LET current_dir == dir_queue[Len(dir_queue)]
           rest == SubSeq(dir_queue, 1, Len(dir_queue) - 1)
           raws == {f \in tree : f.dir = current_dir /\ IsRaw(f)}
           found_raw == raws /= {}
       IN  \E outcome \in {"ok", "read_dir_failed", "create_dir_failed"} :
             CASE outcome = "ok" ->
                    /\ \E subs \in Orderings(SubDirs(tree, current_dir)),
                          found \in Orderings(raws) :
                         /\ dir_queue' = rest \o subs
                         /\ entries' = entries \o found
                         /\ main_pc' = IF rest \o subs = <<>> THEN "spawn" ELSE "walk"
                    /\ out_dirs' = IF CreatesSubdir(found_raw)
                                   THEN CreateDirAll(out_dirs, current_dir)
                                   ELSE out_dirs
                    /\ UNCHANGED <<tasks, permits, main_result, exit_status>>
               [] outcome = "read_dir_failed" ->
                    /\ Exits("read_dir_failed")
                    /\ \E subs \in Orderings(SubDirs(tree, current_dir)),
                          found \in Orderings(raws) :
                         \E m \in 0..Len(subs), k \in 0..Len(found) :
                            /\ dir_queue' = rest \o SubSeq(subs, 1, m)
                            /\ entries' = entries \o SubSeq(found, 1, k)
                    /\ UNCHANGED out_dirs
               [] outcome = "create_dir_failed" ->
                    /\ found_raw
                    /\ Exits("create_dir_failed")
                    /\ \E subs \in Orderings(SubDirs(tree, current_dir)),
                          found \in Orderings(raws) :
                         /\ dir_queue' = rest \o subs
                         /\ entries' = entries \o found
                    /\ UNCHANGED out_dirs
    /\ UNCHANGED <<loc_vars, tree, extension, transfers, out_files, joined>>

\* One iteration of for in_path in entries (lines 216-230): spawn the task
SpawnTask ==
    /\ main_pc = "spawn"
    /\ Len(tasks) < Len(entries)
    /\ tasks' = Append(tasks, NewTask(entries[Len(tasks) + 1]))
    /\ UNCHANGED <<loc_vars, tree, extension, transfers, main_pc, dir_queue, entries, out_dirs,
                   out_files, permits, joined, main_result, exit_status>>

\* the for loop over entries ends
SpawnDone ==
    /\ main_pc = "spawn"
    /\ Len(tasks) = Len(entries)
    /\ main_pc' = "join"
    /\ UNCHANGED <<loc_vars, tree, extension, transfers, dir_queue, entries, out_dirs, out_files,
                   permits, tasks, joined, main_result, exit_status>>

\* task.await?? (line 233): the first ? returns the JoinError of a task
\* that panicked, the second the Err of the task
JoinIgnoresErr(result) == "ok"

JoinOutcome(result) ==
    CASE result = "ok" -> "ok"
      [] result = "panic" -> "task_panicked"
      [] OTHER -> "task_failed"

\* One iteration of for task in tasks (lines 232-234), on the next task in
\* spawn order
JoinNext ==
    /\ main_pc = "join"
    /\ joined < Len(tasks)
    /\ tasks[joined + 1].pc = "finished"
    /\ IF JoinOutcome(tasks[joined + 1].result) = "ok"
       THEN /\ joined' = joined + 1
            /\ UNCHANGED <<main_pc, tasks, permits, main_result, exit_status>>
       ELSE Exits(JoinOutcome(tasks[joined + 1].result)) /\ UNCHANGED joined
    /\ UNCHANGED <<loc_vars, tree, extension, transfers, dir_queue, entries,
                   out_dirs, out_files>>

\* every task was joined: process_directory and main return Ok(())
JoinDone ==
    /\ main_pc = "join"
    /\ joined = Len(tasks)
    /\ Exits("ok")
    /\ UNCHANGED <<loc_vars, tree, extension, transfers, dir_queue, entries,
                   out_dirs, out_files, joined>>

-----------------------------------------------------------------------------
(* Spec: one run of the program *)

LocIdle ==
    /\ tiff = <<>> /\ raw_buf = <<>> /\ loc_pc = "idle"
    /\ loc_result = Err("") /\ ext_result = Err("")

Init ==
    /\ LocIdle
    /\ tree \in {t \in SUBSET FileUniverse : Cardinality(t) <= MaxFiles}
    /\ extension \in Extensions
    /\ transfers \in 0..MaxTransfers
    /\ main_pc = "mkroot"
    /\ dir_queue = <<RootDir>>
    /\ entries = <<>>
    /\ out_dirs = {}
    /\ out_files = [o \in OutputFiles |-> "absent"]
    /\ permits = transfers
    /\ tasks = <<>>
    /\ joined = 0
    /\ main_result = "none"
    /\ exit_status = -1

Next ==
    \/ CreateOutputRoot
    \/ WalkDir
    \/ SpawnTask
    \/ SpawnDone
    \/ JoinNext
    \/ JoinDone
    \/ \E i \in DOMAIN tasks : Acquire(i)
    \/ \E i \in DOMAIN tasks : OpenInput(i)
    \/ \E i \in DOMAIN tasks : FadviseRandom(i)
    \/ \E i \in DOMAIN tasks : MapInput(i)
    \/ \E i \in DOMAIN tasks : MadviseRandom(i)
    \/ \E i \in DOMAIN tasks : ExtractJpeg(i)
    \/ \E i \in DOMAIN tasks : CreateOutput(i)
    \/ \E i \in DOMAIN tasks : WriteOutput(i)
    \/ \E i \in DOMAIN tasks : Release(i)

Spec == Init /\ [][Next]_vars

\* Scheduling of the tokio runtime: main is polled whenever it can go on; a
\* task that has its permit is polled whenever it can go on; a task that
\* waits in acquire_owned gets a permit if permits keep coming back (the
\* semaphore serves its waiters in order).
MainStep ==
    CreateOutputRoot \/ WalkDir \/ SpawnTask \/ SpawnDone \/ JoinNext \/ JoinDone

TaskStep(i) ==
    /\ i \in DOMAIN tasks
    /\ \/ OpenInput(i) \/ FadviseRandom(i) \/ MapInput(i) \/ MadviseRandom(i)
       \/ ExtractJpeg(i) \/ CreateOutput(i) \/ WriteOutput(i) \/ Release(i)

TaskAcquires(i) == i \in DOMAIN tasks /\ Acquire(i)

Fairness ==
    /\ WF_vars(MainStep)
    /\ \A i \in 1..MaxFiles : WF_vars(TaskStep(i)) /\ SF_vars(TaskAcquires(i))

FairSpec == Spec /\ Fairness

-----------------------------------------------------------------------------
(* SpecLoc: the locator and extract_jpeg applied to the input family *)

RunIdle ==
    /\ tree = {} /\ extension = {} /\ transfers = 0 /\ main_pc = "idle" /\ dir_queue = <<>>
    /\ entries = <<>> /\ out_dirs = {} /\ out_files = <<>> /\ permits = 0
    /\ tasks = <<>> /\ joined = 0 /\ main_result = "none" /\ exit_status = -1

InitLoc ==
    /\ RunIdle
    /\ tiff \in Tiffs
    /\ raw_buf = Layout(tiff)
    /\ loc_pc = "start"
    /\ loc_result = Err("")
    /\ ext_result = Err("")

CallLocator ==
    /\ loc_pc = "start"
    /\ loc_result' = find_largest_embedded_jpeg(raw_buf)
    /\ loc_pc' = "located"
    /\ UNCHANGED <<tiff, raw_buf, ext_result, run_vars>>

CallExtract ==
    /\ loc_pc = "located"
    /\ \E hints \in HintOutcomes : ext_result' = extract_jpeg(raw_buf, hints)
    /\ loc_pc' = "extracted"
    /\ UNCHANGED <<tiff, raw_buf, loc_result, run_vars>>

NextLoc == CallLocator \/ CallExtract

SpecLoc == InitLoc /\ [][NextLoc]_vars

-----------------------------------------------------------------------------
(* Claims about the locator, checked under SpecLoc *)

Located == loc_pc \in {"located", "extracted"}

\* What the image declares, read off the image and not off the bytes:
\* the IFDs that carry both JPEG tags, and among them the first one with
\* the greatest declared length.
HasBothTags(ifd) ==
    /\ \E i \in 1..Len(ifd.tags) : ifd.tags[i] = TAG_JPEG_OFFSET
    /\ \E i \in 1..Len(ifd.tags) : ifd.tags[i] = TAG_JPEG_LENGTH

JpegIfds(t) == {i \in 1..Len(t.ifds) : HasBothTags(t.ifds[i])}

LargestIfd(t) ==
    CHOOSE i \in JpegIfds(t) :
        \A j \in JpegIfds(t) :
            \/ t.ifds[j].decl[2] < t.ifds[i].decl[2]
            \/ t.ifds[j].decl[2] = t.ifds[i].decl[2] /\ i <= j

LargestDecl(t) == t.ifds[LargestIfd(t)].decl

\* several linked IFDs, each with both tags, lengths pairwise different
MultiJpegChain(t) ==
    /\ t.fault = "none"
    /\ Len(t.ifds) >= 2
    /\ JpegIfds(t) = 1..Len(t.ifds)
    /\ \A i, j \in 1..Len(t.ifds) : i /= j => t.ifds[i].decl[2] /= t.ifds[j].decl[2]

\* the declared range is a part of the buffer that can hold a JPEG: it
\* starts past offset 0, is not empty and ends within the buffer
InBuffer(t, decl) == decl[1] /= 0 /\ decl[2] /= 0 /\ decl[1] + decl[2] <= t.len

\* C3: on a chain of several IFDs that each carry both JPEG tags with
\* pairwise different lengths, the candidate the walk selects is the one of
\* the IFD with the greatest length, wherever it stands in the chain and
\* whatever the byte order: the locator returns exactly that pair when its
\* range lies in the buffer, and never returns the pair of another IFD.
Thm_C3_LargestAcrossChain ==
    (Located /\ MultiJpegChain(tiff)) =>
        /\ ChosenJpeg(raw_buf) = LargestDecl(tiff)
        /\ InBuffer(tiff, LargestDecl(tiff)) =>
              loc_result = Ok(LargestDecl(tiff)[1], LargestDecl(tiff)[2])
        /\ loc_result.kind = "Ok" =>
              <<loc_result.offset, loc_result.length>> = LargestDecl(tiff)

\* C3 witness: a big-endian chain of three IFDs whose middle IFD declares
\* the longest JPEG, and the locator has returned it.
Wit_C3_LargestInMiddle ==
    /\ Located /\ MultiJpegChain(tiff) /\ ~tiff.is_le
    /\ Len(tiff.ifds) = 3 /\ LargestIfd(tiff) = 2
    /\ loc_result.kind = "Ok"
    /\ <<loc_result.offset, loc_result.length>> = tiff.ifds[2].decl

\* the chosen JPEG of a well-formed image runs past the end of the buffer
ChosenExceeds(t) ==
    /\ t.fault = "none"
    /\ JpegIfds(t) /= {}
    /\ LargestDecl(t)[1] + LargestDecl(t)[2] > t.len

SliceWithinBuffer ==
    (loc_pc = "extracted" /\ ext_result.kind = "Ok") =>
        ext_result.offset + ext_result.length <= Len(raw_buf)

WalkLeavesBuffer(t) == t.fault \in {"ifd_start", "cut", "count", "next"}

\* C5 as stated: when an offset read during the chain walk lies beyond the
\* end of the buffer, the locator returns the out-of-bounds error value.
Cex_C5_WalkOutOfBoundsIsError ==
    (Located /\ WalkLeavesBuffer(tiff)) => loc_result = Err(ERR_EXCEEDS)

\* a well-formed image none of whose IFDs carries both JPEG tags
NoIfdHasBothTags(t) == t.fault = "none" /\ JpegIfds(t) = {}

\* C11: on a buffer whose IFD chain is well formed and in which no IFD
\* carries both tag 0x0201 and tag 0x0202 (no JPEG tag at all, or only one
\* of the two in an IFD), the locator fails with the no-JPEG-found error.
Thm_C11_NoJpegFound ==
    (Located /\ NoIfdHasBothTags(tiff)) => loc_result = Err(ERR_NO_JPEG)

\* C11 witness: a big-endian chain whose first IFD carries only the offset
\* tag and whose second IFD carries only the length tag, and the locator
\* has failed with the no-JPEG-found error.
Wit_C11_TagsInDifferentIfds ==
    /\ Located /\ NoIfdHasBothTags(tiff) /\ ~tiff.is_le
    /\ Len(tiff.ifds) = 2
    /\ tiff.ifds[1].tags = <<TAG_JPEG_OFFSET>>
    /\ tiff.ifds[2].tags = <<TAG_JPEG_LENGTH>>
    /\ loc_result = Err(ERR_NO_JPEG)

\* the buffer has four first bytes and they are neither "II*\0" nor "MM\0*"
BadMagic(buf) ==
    /\ Len(buf) >= 4
    /\ SubSeq(buf, 1, 4) /= <<73, 73, 42, 0>>
    /\ SubSeq(buf, 1, 4) /= <<77, 77, 0, 42>>

\* C12: on a buffer whose first four bytes are neither the little-endian
\* nor the big-endian magic, the locator fails with the invalid-container
\* error; it reads no IFD, as it fails with that error and does not panic
\* also when the buffer ends with the magic or the first-IFD offset lies
\* beyond the buffer.
Thm_C12_BadMagicRejected ==
    (Located /\ BadMagic(raw_buf)) => loc_result = Err(ERR_NOT_TIFF)

\* C12 witness: the buffer is the four bytes "MM*\0", the big-endian magic
\* with its last two bytes in little-endian order, and the locator has
\* failed with the invalid-container error.
Wit_C12_OnlyBadMagic ==
    /\ Located /\ raw_buf = <<77, 77, 42, 0>>
    /\ loc_result = Err(ERR_NOT_TIFF)

Occurrences(ifd, tag) == {i \in 1..Len(ifd.tags) : ifd.tags[i] = tag}

\* a well-formed image with a single IFD that carries each of the two JPEG
\* tags once, for a JPEG range that lies in the buffer
SingleJpegIfd(t) ==
    /\ t.fault = "none"
    /\ Len(t.ifds) = 1
    /\ Cardinality(Occurrences(t.ifds[1], TAG_JPEG_OFFSET)) = 1
    /\ Cardinality(Occurrences(t.ifds[1], TAG_JPEG_LENGTH)) = 1
    /\ InBuffer(t, t.ifds[1].decl)

\* C13: on a valid TIFF buffer, little- or big-endian, with a single IFD
\* that contains both tag 0x0201 and tag 0x0202, in either order and at any
\* position among the entries of the IFD, the locator returns exactly the
\* offset and the length stored in those two entries.
Thm_C13_SingleIfdExact ==
    (Located /\ SingleJpegIfd(tiff)) =>
        loc_result = Ok(tiff.ifds[1].decl[1], tiff.ifds[1].decl[2])

\* C13 witness: a big-endian IFD of four entries whose second entry is the
\* length tag and whose last entry is the offset tag, for a JPEG that ends
\* at the last byte of the buffer, and the locator has returned it.
Wit_C13_LengthBeforeOffset ==
    /\ Located /\ SingleJpegIfd(tiff) /\ ~tiff.is_le
    /\ tiff.ifds[1].tags = <<256, TAG_JPEG_LENGTH, 256, TAG_JPEG_OFFSET>>
    /\ tiff.ifds[1].decl[1] + tiff.ifds[1].decl[2] = tiff.len
    /\ loc_result = Ok(58, 4)

Least(S) == CHOOSE i \in S : \A j \in S : i <= j

Greatest(S) == CHOOSE i \in S : \A j \in S : j <= i

\* a well-formed single-IFD image whose IFD carries both JPEG tags, one of
\* them more than once
RepeatsTag(t) ==
    /\ t.fault = "none" /\ Len(t.ifds) = 1 /\ HasBothTags(t.ifds[1])
    /\ \/ Cardinality(Occurrences(t.ifds[1], TAG_JPEG_OFFSET)) > 1
       \/ Cardinality(Occurrences(t.ifds[1], TAG_JPEG_LENGTH)) > 1

\* the value of the earliest entry of the IFD that carries the tag
FirstValue(ifd, tag) == ifd.vals[Least(Occurrences(ifd, tag))]

\* the entry at which both tags have been seen: the scan stops there
BothSeenAt(ifd) ==
    Greatest({Least(Occurrences(ifd, TAG_JPEG_OFFSET)),
              Least(Occurrences(ifd, TAG_JPEG_LENGTH))})

\* the value of the latest entry that carries the tag among the entries up
\* to the one at which the scan stops
LastValueScanned(ifd, tag) ==
    ifd.vals[Greatest({i \in Occurrences(ifd, tag) : i <= BothSeenAt(ifd)})]

\* C15 as stated: when a JPEG tag appears more than once in an IFD, the
\* offset (or length) taken for the IFD is the value of the earliest entry
\* that carries the tag, wherever the other tag appears.
Cex_C15_FirstOccurrenceWins ==
    (Located /\ RepeatsTag(tiff)) =>
        loc_result = Ok(FirstValue(tiff.ifds[1], TAG_JPEG_OFFSET),
                        FirstValue(tiff.ifds[1], TAG_JPEG_LENGTH))

\* C15 amended: when a JPEG tag appears more than once in an IFD, the
\* offset (or length) taken for the IFD is the value of the latest entry
\* that carries the tag among the entries up to and including the first
\* entry at which both tags have been seen; entries after it are not read.
Thm_C15_LastBeforeBothSeen ==
    (Located /\ RepeatsTag(tiff)) =>
        loc_result = Ok(LastValueScanned(tiff.ifds[1], TAG_JPEG_OFFSET),
                        LastValueScanned(tiff.ifds[1], TAG_JPEG_LENGTH))

\* C15 witness: the IFD holds the offset tag twice (16, then 12) before the
\* length tag, and the locator has returned the second offset.
Wit_C15_SecondOffsetTaken ==
    /\ Located /\ RepeatsTag(tiff)
    /\ tiff.ifds[1].tags = <<TAG_JPEG_OFFSET, TAG_JPEG_OFFSET, TAG_JPEG_LENGTH>>
    /\ tiff.ifds[1].vals = <<16, 12, 3>>
    /\ loc_result = Ok(12, 3)

\* C18 as stated: find_largest_embedded_jpeg terminates on every input
\* buffer, returning a result or an error after finitely many IFD visits,
\* also when the next-IFD pointer of an IFD refers to that IFD or to an
\* earlier IFD of the chain.
Cex_C18_LocatorTerminates == Located => loc_result.kind /= "Diverge"

-----------------------------------------------------------------------------
(* Claims about the run, checked under Spec *)

Exited == main_pc = "exited"

Has(t, ev) == \E k \in DOMAIN t.events : t.events[k] = ev

Failed(t) == t.result \in {"err", "panic"}

\* C1 as stated: when a file's task fails, every discovered file's task
\* has run to completion (success or failure) by the time the run returns
\* its result; none is skipped or aborted.
Cex_C1_AllTasksFinishBeforeReturn ==
    (Exited /\ \E i \in DOMAIN tasks : Failed(tasks[i])) =>
        \A j \in DOMAIN tasks : tasks[j].pc = "finished"

Mapped == {i \in DOMAIN tasks : tasks[i].mapped}

\* C2: in every reachable state at most transfers file tasks hold an open
\* mapping of their input file, whatever steps have failed.
Thm_C2_MappingsBounded == Cardinality(Mapped) <= transfers

\* C2 witness: as many mappings are open as there are permits while a
\* further task waits for a permit.
Wit_C2_PoolFull ==
    /\ transfers >= 1
    /\ Cardinality(Mapped) = transfers
    /\ \E i \in DOMAIN tasks : tasks[i].pc = "spawned"

HintFailures ==
    {"fadvise_random_failed", "madvise_random_failed", "fadvise_willneed_failed",
     "madvise_willneed_failed", "madvise_populate_failed"}

HintFailed(t) == \E ev \in HintFailures : Has(t, ev)

\* C6 as stated: a failed advisory hint never makes the file's task fail.
Cex_C6_HintFailureNotFatal ==
    \A i \in DOMAIN tasks : HintFailed(tasks[i]) => tasks[i].result /= "err"

\* every discovered file was processed without error
AllProcessedOk ==
    \A k \in DOMAIN entries :
        \E i \in DOMAIN tasks : tasks[i].file = entries[k] /\ tasks[i].result = "ok"

\* C7 as stated: the exit status is zero if and only if every discovered
\* file was processed without error.
Cex_C7_ZeroIffAllOk == Exited => (exit_status = 0 <=> AllProcessedOk)

WalkFailures == {"create_output_root_failed", "read_dir_failed", "create_dir_failed"}

\* C7 amended: the exit status is zero if and only if creating the output
\* root and walking the input tree succeeded and every discovered file was
\* processed without error; it is non-zero whenever a file task failed,
\* wherever the task stands in the join order.
Thm_C7_ZeroIffWalkedAndAllOk ==
    Exited => (exit_status = 0 <=> (main_result \notin WalkFailures /\ AllProcessedOk))

\* C7 witness: the first task in join order succeeded, the second failed,
\* and the process has exited non-zero.
Wit_C7_LaterTaskFailed ==
    /\ Exited /\ Len(tasks) = 2
    /\ tasks[1].result = "ok" /\ tasks[2].result = "err" /\ tasks[2].pc = "finished"
    /\ exit_status = 1

\* C8 as stated: when the run ends, no output file, empty or partly
\* written, exists for a file whose task failed.
Cex_C8_NoOutputOfFailedFile ==
    Exited => \A i \in DOMAIN tasks :
                 Failed(tasks[i]) => out_files[OutputFile(tasks[i].file)] = "absent"

WriterInvoked(t) == Has(t, "create") \/ Has(t, "create_failed")

EarlierFailures ==
    HintFailures \cup {"open_failed", "mmap_failed", "locate_failed", "locate_panicked"}

\* C9: the output writer is invoked for a file only after the locator has
\* returned a JPEG whose offset+length lies within the buffer; when open,
\* map, a hint or the locator fails, the writer is never invoked.
Thm_C9_WriterOnlyAfterValidSlice ==
    \A i \in DOMAIN tasks :
        /\ WriterInvoked(tasks[i]) =>
              /\ Has(tasks[i], "located")
              /\ tasks[i].jpeg /= NoJpeg
              /\ tasks[i].jpeg[1] + tasks[i].jpeg[2] <= tasks[i].jpeg[3]
        /\ (\E ev \in EarlierFailures : Has(tasks[i], ev)) => ~WriterInvoked(tasks[i])

\* C9 witness: a task has invoked the writer with an in-bounds slice while
\* another task has failed in the locator.
Wit_C9_WriterAfterLocate ==
    \E i, j \in DOMAIN tasks :
        /\ Has(tasks[i], "create") /\ tasks[i].jpeg[1] + tasks[i].jpeg[2] <= tasks[i].jpeg[3]
        /\ Has(tasks[j], "locate_failed") /\ tasks[j].result = "err"

\* C10: the output subdirectory of every spawned file task exists from the
\* moment the task is spawned, hence before its write is attempted; the
\* walk, which creates the directories, is over before the first spawn.
Thm_C10_DirsBeforeTasks ==
    /\ \A i \in DOMAIN tasks : OutputFile(tasks[i].file).dir \in out_dirs
    /\ tasks /= <<>> => (dir_queue = <<>> /\ main_pc \in {"spawn", "join", "exited"})

\* C10 witness: a file of the nested directory a/b is being written while
\* a task of another directory is still waiting to start.
Wit_C10_NestedDirWrite ==
    \E i, j \in DOMAIN tasks :
        /\ tasks[i].pc = "write" /\ tasks[i].file.dir = <<"a", "b">>
        /\ tasks[j].pc = "spawned" /\ tasks[j].file.dir /= <<"a", "b">>

\* str::to_lowercase on the extensions of the files of the input tree
to_lowercase(e) ==
    CASE e = "ARW" -> "arw" [] e = "Arw" -> "arw" [] e = "NEF" -> "nef"
      [] OTHER -> e

\* the walk has run to its end without a failure
WalkDone ==
    \/ main_pc \in {"spawn", "join"}
    \/ main_result \in {"ok", "task_failed", "task_panicked"}

\* C14 as stated: the walk selects a file if and only if its extension
\* equals, ignoring letter case, one of the default extensions, or is the
\* caller-supplied extension; every case variant of a default extension,
\* mixed case included, is selected.
Cex_C14_CaseInsensitiveSelection ==
    WalkDone =>
        \A f \in tree :
            (\E k \in DOMAIN entries : entries[k] = f)
                <=> (to_lowercase(f.ext) \in DefaultExtensions \/ f.ext \in extension)

Holding == {i \in DOMAIN tasks : tasks[i].permit}

\* the task is between acquire_owned and drop(permit)
BetweenAcquireAndRelease(t) ==
    t.pc \in {"open", "fadvise", "mmap", "madvise", "extract", "create", "write",
              "release"}

Completed(t) == t.pc \in {"finished", "cancelled"}

\* C16: every file task holds one permit from before its first I/O until
\* it completes and returns it on every completion path: in every reachable
\* state the permits taken are as many as the tasks between acquire and
\* release, a task that has not acquired has done no I/O, and once all
\* tasks have completed all the permits are available again.
Thm_C16_PermitAccounting ==
    /\ transfers - permits = Cardinality(Holding)
    /\ \A i \in DOMAIN tasks :
          /\ tasks[i].permit <=> BetweenAcquireAndRelease(tasks[i])
          /\ tasks[i].pc = "spawned" => tasks[i].events = <<>>
    /\ (\A i \in DOMAIN tasks : Completed(tasks[i])) => permits = transfers

\* C16 witness: with two permits, one task has succeeded, the other has
\* panicked in the locator, both have completed and both permits are back.
Wit_C16_PermitsBackAfterFailure ==
    /\ transfers = 2 /\ Len(tasks) = 2 /\ permits = 2
    /\ \A i \in DOMAIN tasks : tasks[i].pc = "finished"
    /\ \E i, j \in DOMAIN tasks : tasks[i].result = "ok" /\ tasks[j].result = "panic"

\* the calls of a successfully processed file, in order
EventsOfSuccess ==
    <<"open", "fadvise_random", "mmap", "madvise_random", "located",
      "fadvise_willneed", "madvise_willneed", "madvise_populate", "create",
      "write">>

RangeHints ==
    {"fadvise_willneed", "madvise_willneed", "madvise_populate",
     "fadvise_willneed_failed", "madvise_willneed_failed",
     "madvise_populate_failed"}

\* C17: for every successfully processed file the events occur in this
\* order: whole-file random-access hint, location of the JPEG range,
\* will-need hint on exactly that range, populate hint on exactly that
\* range, and only then the write of the slice; no hint on the JPEG range is
\* issued for a file whose location failed.
Thm_C17_HintOrder ==
    \A i \in DOMAIN tasks :
        /\ tasks[i].result = "ok" =>
              /\ tasks[i].events = EventsOfSuccess
              /\ tasks[i].hinted = [k \in 1..3 |-> <<tasks[i].jpeg[1], tasks[i].jpeg[2]>>]
        /\ (Has(tasks[i], "locate_failed") \/ Has(tasks[i], "locate_panicked")) =>
              /\ tasks[i].hinted = <<>>
              /\ \A ev \in RangeHints : ~Has(tasks[i], ev)

\* C17 witness: one file was processed successfully, its JPEG range, the
\* 9 bytes from offset 12, hinted three times before the write, and the
\* location of another file failed.
Wit_C17_HintedThenWritten ==
    \E i, j \in DOMAIN tasks :
        /\ tasks[i].result = "ok" /\ tasks[i].pc = "finished"
        /\ tasks[i].hinted = <<<<12, 9>>, <<12, 9>>, <<12, 9>>>>
        /\ Has(tasks[j], "locate_failed") /\ tasks[j].hinted = <<>>

\* C19 as stated: no two file tasks of one run write to the same output
\* path: distinct discovered input files map to distinct output files, so
\* that two tasks never create and write one output file at the same time.
Cex_C19_DistinctOutputPaths ==
    \A i, j \in DOMAIN tasks :
        i /= j =>
            /\ OutputFile(tasks[i].file) /= OutputFile(tasks[j].file)
            /\ ~(/\ tasks[i].pc \in {"create", "write"}
                 /\ tasks[j].pc \in {"create", "write"}
                 /\ OutputFile(tasks[i].file) = OutputFile(tasks[j].file))

\* the i-th task is spawned and waits in acquire_owned
WaitsForPermit(i) == i \in DOMAIN tasks /\ tasks[i].pc = "spawned"

\* C20 as stated: for every concurrency limit the command line accepts,
\* transfers = 0 included, under fair scheduling every spawned task
\* eventually leaves the wait for its permit and process_directory
\* eventually returns.
Cex_C20_EveryRunReturns ==
    /\ <>Exited
    /\ \A i \in 1..MaxFiles : WaitsForPermit(i) ~> ~WaitsForPermit(i)

=============================================================================



